---- MODULE Spec2Model ----
(***************************************************************************)
(* Model of nvmbuilder_schema.py: the pydantic schema of an NVM layout     *)
(* document (Config / Block / Header / Entry / LeafEntry / SizeSource /    *)
(* ValueSource) and the loader load_layout.                                *)
(*                                                                         *)
(* A decoded document value (what json.load / yaml.safe_load / tomllib     *)
(* return) and a validated Python object are both records                  *)
(*     [k, i, s, ks, l]                                                    *)
(* k  : the Python type name ("int", "bool", "float", "str", "NoneType",   *)
(*      "list", "tuple", "dict", or a model class name),                   *)
(* i  : the integer payload (int; bool as 0/1; float in TENTHS, so that    *)
(*      1.0 is 10 and 1.5 is 15),                                          *)
(* s  : the string payload,                                                *)
(* ks : the keys of a dict / the field names of a model, in order,         *)
(* l  : the items of a list / tuple, or the values of a dict / model,      *)
(*      parallel to ks.                                                    *)
(***************************************************************************)
EXTENDS Integers, Sequences, FiniteSets, TLC

VARIABLES target, path, input, pc, result, acc, stdout, result2

vars == <<target, path, input, pc, result, acc, stdout, result2>>

\* ------------------------------------------------------------------ values

Mk(k, i, s, ks, l) == [k |-> k, i |-> i, s |-> s, ks |-> ks, l |-> l]

IntV(n) == Mk("int", n, "", <<>>, <<>>)

BoolV(b) == Mk("bool", IF b THEN 1 ELSE 0, "", <<>>, <<>>)

FloatV(tenths) == Mk("float", tenths, "", <<>>, <<>>)

StrV(s) == Mk("str", 0, s, <<>>, <<>>)

NoneV == Mk("NoneType", 0, "", <<>>, <<>>)

ListV(l) == Mk("list", 0, "", <<>>, l)

TupleV(l) == Mk("tuple", 0, "", <<>>, l)

DictV(ks, l) == Mk("dict", 0, "", ks, l)

Obj(cls, ks, l) == Mk(cls, 0, "", ks, l)

EnumV(cls, s) == Mk(cls, 0, s, <<>>, <<>>)

\* isinstance(v, Mapping) / isinstance(v, MutableMapping) for decoded values
IsMapping(v) == v.k = "dict"

\* isinstance(v, int): bool is a subclass of int in Python
IsInstanceInt(v) == v.k \in {"int", "bool"}

Range(seq) == {seq[j] : j \in 1..Len(seq)}

\* key in d
Has(d, key) == key \in Range(d.ks)

IndexOf(seq, x) == CHOOSE j \in 1..Len(seq) : seq[j] = x

\* d[key]
Get(d, key) == d.l[IndexOf(d.ks, key)]

RemoveAt(seq, j) == [n \in 1..(Len(seq) - 1) |-> IF n < j THEN seq[n] ELSE seq[n + 1]]

\* d.pop(key): the dict without the key, the other keys keeping their order
DictPop(d, key) ==
    LET j == IndexOf(d.ks, key)
    IN  DictV(RemoveAt(d.ks, j), RemoveAt(d.l, j))

\* d[key] = val: an existing key keeps its position, a new key goes last
DictSet(d, key, val) ==
    IF Has(d, key)
    THEN DictV(d.ks, [n \in 1..Len(d.l) |-> IF d.ks[n] = key THEN val ELSE d.l[n]])
    ELSE DictV(Append(d.ks, key), Append(d.l, val))

\* ----------------------------------------------------------------- results

\* A validation result.  strict tells whether the input was also acceptable
\* in strict mode (no coercion), which is what a smart-mode Union asks first.
Ok(v) == [ok |-> TRUE, val |-> v, errs |-> <<>>, strict |-> TRUE]

OkLax(v) == [ok |-> TRUE, val |-> v, errs |-> <<>>, strict |-> FALSE]

Err(es) == [ok |-> FALSE, val |-> NoneV, errs |-> es, strict |-> FALSE]

Unset == Err(<<"<unset>">>)

RECURSIVE ConcatErrs(_)
\* the line errors of several results, in order
ConcatErrs(rs) ==
    IF rs = <<>> THEN <<>> ELSE Head(rs).errs \o ConcatErrs(Tail(rs))

AllOk(rs) == \A j \in 1..Len(rs) : rs[j].ok

Vals(rs) == [j \in 1..Len(rs) |-> rs[j].val]

\* a model instance from its validated fields, or the errors of all fields
\* followed by the errors of the model's own checks
Build(cls, ks, rs, more) ==
    IF AllOk(rs) /\ more = <<>> THEN Ok(Obj(cls, ks, Vals(rs)))
    ELSE Err(ConcatErrs(rs) \o more)

\* a RootModel instance around its validated root
BuildRoot(cls, r) ==
    IF r.ok THEN [r EXCEPT !.val = Obj(cls, <<"root">>, <<r.val>>)] ELSE r

\* a container of validated items
BuildItems(kind, ks, rs) ==
    IF AllOk(rs)
    THEN [Ok(Mk(kind, 0, "", ks, Vals(rs))) EXCEPT !.strict = \A j \in 1..Len(rs) : rs[j].strict]
    ELSE Err(ConcatErrs(rs))

\* ----------------------------------------------- pydantic scalar validators

NumericStrs == {"0", "1", "2"}

ParseInt(s) == CASE s = "0" -> 0 [] s = "1" -> 1 [] s = "2" -> 2

TrueStrs == {"1", "true", "yes", "on"}

FalseStrs == {"0", "false", "no", "off"}

\* int: an int as it is; in lax mode also a bool (0/1), a float without
\* fractional part and a numeric string
ValidateInt(v) ==
    CASE v.k = "int" -> Ok(v)
      [] v.k = "bool" -> OkLax(IntV(v.i))
      [] v.k = "float" ->
            IF v.i % 10 = 0 THEN OkLax(IntV(v.i \div 10)) ELSE Err(<<"int_from_float">>)
      [] v.k = "str" ->
            IF v.s \in NumericStrs THEN OkLax(IntV(ParseInt(v.s)))
            ELSE Err(<<"int_parsing">>)
      [] OTHER -> Err(<<"int_type">>)

\* float: a float or an int; in lax mode also a bool and a numeric string
ValidateFloat(v) ==
    CASE v.k = "float" -> Ok(v)
      [] v.k = "int" -> Ok(FloatV(v.i * 10))
      [] v.k = "bool" -> OkLax(FloatV(v.i * 10))
      [] v.k = "str" ->
            IF v.s \in NumericStrs THEN OkLax(FloatV(ParseInt(v.s) * 10))
            ELSE Err(<<"float_parsing">>)
      [] OTHER -> Err(<<"float_type">>)

\* str: only a str, in either mode
ValidateStr(v) == IF v.k = "str" THEN Ok(v) ELSE Err(<<"string_type">>)

\* bool: a bool; in lax mode also 0/1, 0.0/1.0 and the true/false words
ValidateBool(v) ==
    CASE v.k = "bool" -> Ok(v)
      [] v.k = "int" /\ v.i \in {0, 1} -> OkLax(BoolV(v.i = 1))
      [] v.k = "float" /\ v.i \in {0, 10} -> OkLax(BoolV(v.i = 10))
      [] v.k = "str" /\ v.s \in TrueStrs -> OkLax(BoolV(TRUE))
      [] v.k = "str" /\ v.s \in FalseStrs -> OkLax(BoolV(FALSE))
      [] v.k \in {"int", "float", "str"} -> Err(<<"bool_parsing">>)
      [] OTHER -> Err(<<"bool_type">>)

\* a str-valued Enum: the input must be one of the member values
ValidateEnum(cls, members, v) ==
    IF v.k = "str" /\ v.s \in members THEN Ok(EnumV(cls, v.s)) ELSE Err(<<"enum">>)

\* a smart-mode Union over its members' results: the first member that
\* accepts in strict mode, else the first member that accepts in lax mode,
\* else the errors of every member
SmartUnion(rs) ==
    IF \E j \in 1..Len(rs) : rs[j].strict
    THEN rs[CHOOSE j \in 1..Len(rs) : rs[j].strict /\ \A n \in 1..(j - 1) : ~rs[n].strict]
    ELSE IF \E j \in 1..Len(rs) : rs[j].ok
    THEN rs[CHOOSE j \in 1..Len(rs) : rs[j].ok /\ \A n \in 1..(j - 1) : ~rs[n].ok]
    ELSE Err(ConcatErrs(rs))

\* ------------------------------------------------------------------ schema

EndiannessMembers == {"little", "big"}

ScalarTypeMembers == {"u8", "u16", "u32", "u64", "i8", "i16", "i32", "i64", "f32", "f64"}

\* a model field without default: missing when absent
Field(d, key, validated) ==
    IF Has(d, key) THEN validated ELSE Err(<<"missing">>)

\* CrcData
ValidateCrcData(v) ==
    IF ~IsMapping(v) THEN Err(<<"model_type">>)
    ELSE Build("CrcData", <<"polynomial", "start", "xor_out", "ref_in", "ref_out">>,
               << Field(v, "polynomial", ValidateInt(Get(v, "polynomial"))),
                  Field(v, "start", ValidateInt(Get(v, "start"))),
                  Field(v, "xor_out", ValidateInt(Get(v, "xor_out"))),
                  Field(v, "ref_in", ValidateBool(Get(v, "ref_in"))),
                  Field(v, "ref_out", ValidateBool(Get(v, "ref_out"))) >>, <<>>)

\* CrcLocation = Union[str, int]
ValidateCrcLocation(v) == SmartUnion(<<ValidateStr(v), ValidateInt(v)>>)

PaddingDefault == 255

\* Header
ValidateHeader(v) ==
    IF ~IsMapping(v) THEN Err(<<"model_type">>)
    ELSE Build("Header", <<"start_address", "length", "crc_location", "padding">>,
               << Field(v, "start_address", ValidateInt(Get(v, "start_address"))),
                  Field(v, "length", ValidateInt(Get(v, "length"))),
                  Field(v, "crc_location", ValidateCrcLocation(Get(v, "crc_location"))),
                  IF Has(v, "padding") THEN ValidateInt(Get(v, "padding"))
                  ELSE Ok(IntV(PaddingDefault)) >>, <<>>)

\* SizeSource._coerce, the mode="before" validator
SizeCoerce(v) ==
    IF v.k = "list"
    THEN IF Len(v.l) # 2
         THEN Err(<<"Value error, size must be length-2 list when array">>)
         ELSE IF ~IsInstanceInt(v.l[1]) \/ ~IsInstanceInt(v.l[2])
         THEN Err(<<"Value error, size list must contain integers">>)
         ELSE Ok(TupleV(<<v.l[1], v.l[2]>>))
    ELSE Ok(v)

\* Tuple[int, int]
ValidateIntPair(v) ==
    IF v.k \notin {"tuple", "list"} THEN Err(<<"tuple_type">>)
    ELSE IF Len(v.l) # 2 THEN Err(<<"tuple_length">>)
    ELSE BuildItems("tuple", <<>>, [j \in 1..2 |-> ValidateInt(v.l[j])])

\* Union[int, Tuple[int, int]] of what _coerce returned, or its error
SizeRoot(c) ==
    IF ~c.ok THEN c ELSE SmartUnion(<<ValidateInt(c.val), ValidateIntPair(c.val)>>)

\* SizeSource = RootModel[Union[int, Tuple[int, int]]]
ValidateSizeSource(v) == BuildRoot("SizeSource", SizeRoot(SizeCoerce(v)))

\* DataValue = Union[int, float, str]
ValidateDataValue(v) == SmartUnion(<<ValidateInt(v), ValidateFloat(v), ValidateStr(v)>>)

\* List[DataValue]
ValidateDataValues(v) ==
    IF v.k # "list" THEN Err(<<"list_type">>)
    ELSE BuildItems("list", <<>>, [j \in 1..Len(v.l) |-> ValidateDataValue(v.l[j])])

\* _ValueArray = RootModel[List[DataValue]]
ValidateValueArray(v) == BuildRoot("_ValueArray", ValidateDataValues(v))

\* ValueSource = RootModel[Union[DataValue, _ValueArray]]
ValidateValueSource(v) ==
    BuildRoot("ValueSource",
              SmartUnion(<<ValidateInt(v), ValidateFloat(v), ValidateStr(v),
                           ValidateValueArray(v)>>))

\* ValueSource.is_single
is_single(self) == self.l[1].k # "_ValueArray"

\* single unwrapping a one-element array
single_unwrapping(self) ==
    IF self.l[1].k = "_ValueArray"
    THEN IF Len(self.l[1].l[1].l) = 1 THEN Ok(self.l[1].l[1].l[1])
         ELSE Err(<<"ValueSource contains an array, not a single value">>)
    ELSE Ok(self.l[1])

\* ValueSource.single
single(self) ==
    IF self.l[1].k = "_ValueArray"
    THEN Err(<<"ValueSource contains an array, not a single value">>)
    ELSE Ok(self.l[1])

\* ValueSource.array
array(self) ==
    IF self.l[1].k = "_ValueArray" THEN Ok(self.l[1].l[1]) ELSE Ok(ListV(<<self.l[1]>>))

\* _NameSource: name: str
ValidateNameSource(v) ==
    IF ~IsMapping(v) THEN Err(<<"model_type">>)
    ELSE Build("_NameSource", <<"name">>,
               <<Field(v, "name", ValidateStr(Get(v, "name")))>>, <<>>)

\* _ValueLiteral: value: ValueSource
ValidateValueLiteral(v) ==
    IF ~IsMapping(v) THEN Err(<<"model_type">>)
    ELSE Build("_ValueLiteral", <<"value">>,
               <<Field(v, "value", ValidateValueSource(Get(v, "value")))>>, <<>>)

\* EntrySource = Union[_NameSource, _ValueLiteral]
ValidateEntrySource(v) == SmartUnion(<<ValidateNameSource(v), ValidateValueLiteral(v)>>)

\* the rewrite of _flatten_source: key popped, `source` assigned
MoveToSource(v, key) ==
    DictSet(DictPop(v, key), "source", DictV(<<key>>, <<Get(v, key)>>))

\* LeafEntry._flatten_source, the mode="before" validator
FlattenSource(v) ==
    IF ~IsMapping(v) THEN Ok(v)
    ELSE IF Has(v, "name") /\ Has(v, "value")
    THEN Err(<<"Value error, LeafEntry accepts either 'name' or 'value', not both">>)
    ELSE IF ~Has(v, "name") /\ ~Has(v, "value")
    THEN Err(<<"Value error, LeafEntry requires either 'name' or 'value'">>)
    ELSE IF Has(v, "name") THEN Ok(MoveToSource(v, "name"))
    ELSE Ok(MoveToSource(v, "value"))

\* the keys LeafEntry's fields are read from: alias `type`, size, source
LeafInputKeys == {"type", "size", "source"}

RECURSIVE ExtraErrs(_, _)
\* extra="forbid": one error for each key that is not a field's input key
ExtraErrs(ks, allowed) ==
    IF ks = <<>> THEN <<>>
    ELSE (IF Head(ks) \in allowed THEN <<>> ELSE <<"extra_forbidden">>)
         \o ExtraErrs(Tail(ks), allowed)

\* Optional[SizeSource] = None
ValidateOptionalSize(d) ==
    IF ~Has(d, "size") THEN Ok(NoneV)
    ELSE IF Get(d, "size") = NoneV THEN Ok(NoneV)
    ELSE ValidateSizeSource(Get(d, "size"))

\* the fields of LeafEntry, read from what _flatten_source returned
LeafFields(d) ==
    IF ~IsMapping(d) THEN Err(<<"model_type">>)
    ELSE Build("LeafEntry", <<"scalar_type", "size", "source">>,
               << Field(d, "type",
                        ValidateEnum("ScalarType", ScalarTypeMembers, Get(d, "type"))),
                  ValidateOptionalSize(d),
                  Field(d, "source", ValidateEntrySource(Get(d, "source"))) >>,
               ExtraErrs(d.ks, LeafInputKeys))

\* a model after its mode="before" validator: the validator's error, or the
\* fields read from what it returned
AfterBefore(c, fields) == IF ~c.ok THEN c ELSE fields

\* LeafEntry
ValidateLeafEntry(v) == AfterBefore(FlattenSource(v), LeafFields(FlattenSource(v).val))

RECURSIVE ValidateEntry(_)
\* Dict[str, Entry]
ValidateGroup(v) ==
    IF ~IsMapping(v) THEN Err(<<"dict_type">>)
    ELSE BuildItems("dict", v.ks, [j \in 1..Len(v.l) |-> ValidateEntry(v.l[j])])

\* Entry = RootModel[Union[LeafEntry, Dict[str, Entry]]]
ValidateEntry(v) ==
    BuildRoot("Entry", SmartUnion(<<ValidateLeafEntry(v), ValidateGroup(v)>>))

\* Block
ValidateBlock(v) ==
    IF ~IsMapping(v) THEN Err(<<"model_type">>)
    ELSE Build("Block", <<"header", "data">>,
               << Field(v, "header", ValidateHeader(Get(v, "header"))),
                  Field(v, "data", ValidateEntry(Get(v, "data"))) >>, <<>>)

\* Settings
ValidateSettings(v) ==
    IF ~IsMapping(v) THEN Err(<<"model_type">>)
    ELSE Build("Settings", <<"endianness", "crc">>,
               << Field(v, "endianness",
                        ValidateEnum("Endianness", EndiannessMembers, Get(v, "endianness"))),
                  Field(v, "crc", ValidateCrcData(Get(v, "crc"))) >>, <<>>)

RECURSIVE BlockIndicesKnownKeys(_, _)
\* the loop skipping `blocks` as well, as if it were a fixed field's key
BlockIndicesKnownKeys(ks, j) ==
    IF j > Len(ks) THEN <<>>
    ELSE (IF ks[j] \in {"settings", "blocks"} THEN <<>> ELSE <<j>>)
         \o BlockIndicesKnownKeys(ks, j + 1)

RECURSIVE BlockIndices(_, _)
\* the loop of _flatten_blocks: the positions of the keys other than
\* `settings`, in the order the items are visited
BlockIndices(ks, j) ==
    IF j > Len(ks) THEN <<>>
    ELSE (IF ks[j] = "settings" THEN <<>> ELSE <<j>>) \o BlockIndices(ks, j + 1)

\* the items of d at the given positions, as an ordered mapping
ItemsAt(d, idx) ==
    DictV([n \in 1..Len(idx) |-> d.ks[idx[n]]], [n \in 1..Len(idx) |-> d.l[idx[n]]])

\* Config._flatten_blocks, the mode="before" validator
FlattenBlocks(v) ==
    IF ~IsMapping(v) THEN Ok(v)
    ELSE IF ~Has(v, "settings")
    THEN Err(<<"Value error, Missing required 'settings' at top-level">>)
    ELSE Ok(DictV(<<"settings", "blocks">>,
                  <<Get(v, "settings"), ItemsAt(v, BlockIndices(v.ks, 1))>>))

\* Dict[str, Block]
ValidateBlocks(v) ==
    IF ~IsMapping(v) THEN Err(<<"dict_type">>)
    ELSE BuildItems("dict", v.ks, [j \in 1..Len(v.l) |-> ValidateBlock(v.l[j])])

\* the fields of Config, read from what _flatten_blocks returned
ConfigFields(d) ==
    IF ~IsMapping(d) THEN Err(<<"model_type">>)
    ELSE Build("Config", <<"settings", "blocks">>,
               << Field(d, "settings", ValidateSettings(Get(d, "settings"))),
                  Field(d, "blocks", ValidateBlocks(Get(d, "blocks"))) >>, <<>>)

\* Config.model_validate
ValidateConfig(v) == AfterBefore(FlattenBlocks(v), ConfigFields(FlattenBlocks(v).val))

RootModels == {"SizeSource", "_ValueArray", "ValueSource", "Entry"}

RECURSIVE Dump(_)
\* model_dump_json, read back as a document: a model is a mapping keyed by
\* its field names, a root model is its root, an enum member is its value,
\* a tuple is a list
Dump(o) ==
    CASE o.k \in {"int", "bool", "float", "str", "NoneType"} -> o
      [] o.k \in {"ScalarType", "Endianness"} -> StrV(o.s)
      [] o.k \in {"list", "tuple"} -> ListV([j \in 1..Len(o.l) |-> Dump(o.l[j])])
      [] o.k \in RootModels -> Dump(o.l[1])
      [] OTHER -> DictV(o.ks, [j \in 1..Len(o.l) |-> Dump(o.l[j])])

\* os.path.splitext(path)[1].lower(); a path is <<stem, extension>>
Lower(ext) ==
    CASE ext = ".YAML" -> ".yaml"
      [] ext = ".Json" -> ".json"
      [] OTHER -> ext

SupportedExts == {".toml", ".yaml", ".yml", ".json"}

\* the except clause of load_layout: the ValidationError re-raised as
\* ValueError("failed to parse file {path}: {e}")
Reraise(p, r) ==
    IF r.ok THEN r ELSE Err(<<"failed to parse file ", p[1], p[2], ": ">> \o r.errs)

\* load_layout letting the ValidationError through without the file context
load_layout_unwrapped(p, data) ==
    IF Lower(p[2]) \notin SupportedExts
    THEN Err(<<"Unsupported file format: ", Lower(p[2])>>)
    ELSE ValidateConfig(data)

\* load_layout: the decoded file is `data`
load_layout(p, data) ==
    IF Lower(p[2]) \notin SupportedExts
    THEN Err(<<"Unsupported file format: ", Lower(p[2])>>)
    ELSE Reraise(p, ValidateConfig(data))

\* ------------------------------------------------------------------ inputs

MaxSizeLen == 3

MaxValueLen == 2

MaxLeafKeys == 3

MaxGroupKeys == 2

MaxTopKeys == 3

SeqsUpTo(S, n) == UNION {[1..m -> S] : m \in 0..n}

IsInjective(seq) == \A a, b \in 1..Len(seq) : seq[a] = seq[b] => a = b

IsIncreasing(seq) == \A a, b \in 1..Len(seq) : a < b => seq[a] < seq[b]

EmptyDict == DictV(<<>>, <<>>)

SizeElems ==
    {IntV(1), IntV(2), BoolV(TRUE), FloatV(10), StrV("1"), EmptyDict, ListV(<<>>)}

SizeInputs ==
    SizeElems \cup {IntV(0), BoolV(FALSE), FloatV(15), StrV("x"), NoneV}
        \cup {ListV(s) : s \in SeqsUpTo(SizeElems, MaxSizeLen)}

ValueElems ==
    {IntV(1), FloatV(15), StrV("a"), BoolV(TRUE), NoneV, ListV(<<IntV(1)>>), EmptyDict}

ValueInputs ==
    ValueElems \cup {FloatV(10), StrV("1")}
        \cup {ListV(s) : s \in SeqsUpTo(ValueElems, MaxValueLen)}

CrcLocationElems ==
    {StrV("end"), StrV("1"), IntV(0), IntV(4096), BoolV(TRUE), BoolV(FALSE),
     FloatV(10), FloatV(15), NoneV, EmptyDict, ListV(<<>>), ListV(<<IntV(1)>>)}

Optional(key, present, val) == IF present THEN <<<<key, val>>>> ELSE <<>>

\* the mapping with the given <<key, value>> items
DictOf(items) ==
    DictV([j \in 1..Len(items) |-> items[j][1]], [j \in 1..Len(items) |-> items[j][2]])

HeaderInputs ==
    {DictOf(Optional("start_address", sa # NoneV, sa)
            \o <<<<"length", IntV(16)>>>>
            \o Optional("crc_location", hasLoc, loc)
            \o Optional("padding", pad # NoneV, pad)) :
        sa \in {NoneV, IntV(0), StrV("x")}, hasLoc \in BOOLEAN,
        loc \in CrcLocationElems, pad \in {NoneV, IntV(0), EmptyDict}}

LeafKeys == <<"type", "size", "name", "value", "source", "scalar_type", "extra">>

LeafVals == {StrV("u8"), StrV("x"), ListV(<<IntV(2), IntV(3)>>), EmptyDict}

\* flat mappings: up to MaxLeafKeys of the LeafKeys, each with one of LeafVals
FlatDocs ==
    UNION {{DictV([j \in 1..Len(pos) |-> LeafKeys[pos[j]]], vals) :
                vals \in [1..Len(pos) -> LeafVals]} :
           pos \in {q \in SeqsUpTo(1..Len(LeafKeys), MaxLeafKeys) : IsIncreasing(q)}}

LeafA == DictOf(<< <<"type", StrV("u8")>>, <<"value", IntV(1)>> >>)

LeafB ==
    DictOf(<< <<"type", StrV("u16")>>, <<"size", ListV(<<IntV(2), IntV(3)>>)>>,
              <<"name", StrV("table")>> >>)

Children == {LeafA, LeafB, EmptyDict, DictOf(<< <<"type", StrV("u8")>> >>), StrV("x")}

GroupKeys == {"type", "a", "b"}

\* groups: up to MaxGroupKeys distinct keys in any order, each with a child
GroupDocs ==
    UNION {{DictV(ks, vals) : vals \in [1..Len(ks) -> Children]} :
           ks \in {q \in SeqsUpTo(GroupKeys, MaxGroupKeys) : IsInjective(q)}}

\* documents carrying a `type` key
LeafInputs == {d \in FlatDocs : Has(d, "type")}

EntryInputs ==
    FlatDocs \cup GroupDocs \cup {DictOf(<< <<"g", d>> >>) : d \in GroupDocs}
        \cup {IntV(1), StrV("u8"), ListV(<<>>)}

CrcDoc ==
    DictOf(<< <<"polynomial", IntV(7)>>, <<"start", IntV(0)>>, <<"xor_out", IntV(0)>>,
              <<"ref_in", BoolV(FALSE)>>, <<"ref_out", BoolV(FALSE)>> >>)

SettingsOk == DictOf(<< <<"endianness", StrV("little")>>, <<"crc", CrcDoc>> >>)

SettingsBad == DictOf(<< <<"endianness", StrV("middle")>>, <<"crc", CrcDoc>> >>)

HeaderDoc ==
    DictOf(<< <<"start_address", IntV(0)>>, <<"length", IntV(16)>>,
              <<"crc_location", StrV("end")>> >>)

BlockOk == DictOf(<< <<"header", HeaderDoc>>, <<"data", DictOf(<< <<"version", LeafA>> >>)>> >>)

BlockOk2 == DictOf(<< <<"header", HeaderDoc>>, <<"data", LeafB>> >>)

BlockBad == DictOf(<< <<"header", HeaderDoc>> >>)

TopKeys == {"settings", "fw", "blocks", "cal"}

TopVals(key) ==
    IF key = "settings" THEN {SettingsOk, SettingsBad} ELSE {BlockOk, BlockOk2, BlockBad}

ConfigInputs ==
    UNION {{DictV(ks, vals) :
                vals \in {f \in [1..Len(ks) -> {SettingsOk, SettingsBad, BlockOk, BlockOk2, BlockBad}] :
                             \A j \in 1..Len(ks) : f[j] \in TopVals(ks[j])}} :
           ks \in {q \in SeqsUpTo(TopKeys, MaxTopKeys) : IsInjective(q)}}
        \cup {ListV(<<>>), StrV("x")}

Paths == {<<"layout", ".toml">>, <<"layout", ".YAML">>, <<"layout", ".json">>,
          <<"layout", ".txt">>}

NoPath == <<"", "">>

Targets == {"SizeSource", "ValueSource", "Header", "LeafEntry", "Entry", "Config"}

InputsOf(t) ==
    CASE t = "SizeSource" -> SizeInputs
      [] t = "ValueSource" -> ValueInputs
      [] t = "Header" -> HeaderInputs
      [] t = "LeafEntry" -> LeafInputs
      [] t = "Entry" -> EntryInputs
      [] t = "Config" -> ConfigInputs

\* ----------------------------------------------------------- state machine

NoAcc == [is_single |-> Unset, single |-> Unset, array |-> Unset]

Init ==
    /\ target \in Targets
    /\ input \in InputsOf(target)
    /\ path \in (IF target = "Config" THEN Paths ELSE {NoPath})
    /\ pc = "start"
    /\ result = Unset
    /\ acc = NoAcc
    /\ stdout = NoneV
    /\ result2 = Unset

Finish(r) ==
    /\ result' = r
    /\ pc' = IF r.ok THEN "valid" ELSE "invalid"
    /\ UNCHANGED <<target, path, input, acc, stdout, result2>>

\* SizeSource.model_validate(input)
SizeSourceValidate ==
    /\ pc = "start" /\ target = "SizeSource"
    /\ Finish(ValidateSizeSource(input))

\* ValueSource.model_validate(input)
ValueSourceValidate ==
    /\ pc = "start" /\ target = "ValueSource"
    /\ Finish(ValidateValueSource(input))

\* Header.model_validate(input)
HeaderValidate ==
    /\ pc = "start" /\ target = "Header"
    /\ Finish(ValidateHeader(input))

\* LeafEntry.model_validate(input)
LeafEntryValidate ==
    /\ pc = "start" /\ target = "LeafEntry"
    /\ Finish(ValidateLeafEntry(input))

\* Entry.model_validate(input)
EntryValidate ==
    /\ pc = "start" /\ target = "Entry"
    /\ Finish(ValidateEntry(input))

\* cfg = load_layout(path), the file at path decoding to input
LoadLayout ==
    /\ pc = "start" /\ target = "Config"
    /\ Finish(load_layout(path, input))

\* reading the property is_single of the validated ValueSource
ReadIsSingle ==
    /\ pc = "valid" /\ target = "ValueSource" /\ acc.is_single = Unset
    /\ acc' = [acc EXCEPT !.is_single = Ok(BoolV(is_single(result.val)))]
    /\ UNCHANGED <<target, path, input, pc, result, stdout, result2>>

\* reading the property single
ReadSingle ==
    /\ pc = "valid" /\ target = "ValueSource" /\ acc.single = Unset
    /\ acc' = [acc EXCEPT !.single = single(result.val)]
    /\ UNCHANGED <<target, path, input, pc, result, stdout, result2>>

\* reading the property array
ReadArray ==
    /\ pc = "valid" /\ target = "ValueSource" /\ acc.array = Unset
    /\ acc' = [acc EXCEPT !.array = array(result.val)]
    /\ UNCHANGED <<target, path, input, pc, result, stdout, result2>>

\* print(cfg.model_dump_json(indent=2))
PrintDump ==
    /\ pc = "valid" /\ target = "Config"
    /\ stdout' = Dump(result.val)
    /\ pc' = "printed"
    /\ UNCHANGED <<target, path, input, result, acc, result2>>

\* Config.model_validate of the printed document
Revalidate ==
    /\ pc = "printed"
    /\ result2' = ValidateConfig(stdout)
    /\ pc' = "revalidated"
    /\ UNCHANGED <<target, path, input, result, acc, stdout>>

Next ==
    \/ SizeSourceValidate
    \/ ValueSourceValidate
    \/ HeaderValidate
    \/ LeafEntryValidate
    \/ EntryValidate
    \/ LoadLayout
    \/ ReadIsSingle
    \/ ReadSingle
    \/ ReadArray
    \/ PrintDump
    \/ Revalidate

Spec == Init /\ [][Next]_vars

TypeOK ==
    /\ target \in Targets
    /\ pc \in {"start", "valid", "invalid", "printed", "revalidated"}
    /\ result.ok \in BOOLEAN

\* ------------------------------------------------------------------ claims

Supported == Lower(path[2]) \in SupportedExts

\* the keys of a mapping other than `settings`, in document order
OtherKeys(d) == SelectSeq(d.ks, LAMBDA key : key # "settings")

WellFormedTop(d) ==
    /\ IsMapping(d)
    /\ Has(d, "settings")
    /\ ValidateSettings(Get(d, "settings")).ok
    /\ \A j \in 1..Len(d.ks) : d.ks[j] # "settings" => ValidateBlock(d.l[j]).ok

\* C1: a top-level mapping with a well-typed `settings` and valid Block
\* documents under every other key loads, and the keys of `blocks` are the
\* document's keys other than `settings`, in document order (none, and a key
\* named `blocks`, included)
C1_BlocksInDocumentOrder ==
    (target = "Config" /\ pc # "start" /\ Supported /\ WellFormedTop(input))
        => /\ result.ok
           /\ result.val.k = "Config"
           /\ Get(result.val, "blocks").ks = OtherKeys(input)
           /\ \A j \in 1..Len(OtherKeys(input)) :
                 Get(result.val, "blocks").l[j] = ValidateBlock(Get(input, OtherKeys(input)[j])).val

C1_Witness ==
    /\ target = "Config" /\ pc = "valid"
    /\ input.ks = <<"blocks", "settings", "fw">>
    /\ Get(result.val, "blocks").ks = <<"blocks", "fw">>

\* C2: an accepted mapping node is a LeafEntry exactly when it carries a
\* `type` key
C2_LeafIffTypeKey ==
    (target = "Entry" /\ pc = "valid" /\ IsMapping(input))
        => (Has(input, "type") <=> result.val.l[1].k = "LeafEntry")

BothMsg == "Value error, LeafEntry accepts either 'name' or 'value', not both"

NeitherMsg == "Value error, LeafEntry requires either 'name' or 'value'"

\* C3: a node with a `type` key and both `name` and `value`, or neither, is
\* never accepted by the Entry union
C3_NameXorValue ==
    (target = "Entry" /\ pc # "start" /\ IsMapping(input) /\ Has(input, "type")
        /\ (Has(input, "name") <=> Has(input, "value")))
        => /\ ~result.ok
           /\ Has(input, "name") => BothMsg \in Range(result.errs)
           /\ ~Has(input, "name") => NeitherMsg \in Range(result.errs)

\* C4: a leaf document with a key outside {type, size, name, value} is
\* rejected
C4_LeafClosed ==
    (target = "LeafEntry" /\ pc # "start"
        /\ \E j \in 1..Len(input.ks) : input.ks[j] \notin {"type", "size", "name", "value"})
        => ~result.ok

\* C5: SizeSource accepts an integer and a list of exactly two integers,
\* keeping them, and rejects every list of another length or with a
\* non-integer element
C5_SizeShapes ==
    (target = "SizeSource" /\ pc # "start")
        => /\ input.k = "int" => result.ok /\ result.val.l[1] = input
           /\ (input.k = "list" /\ Len(input.l) = 2 /\ \A j \in 1..2 : input.l[j].k = "int")
                 => result.ok /\ result.val.l[1].l = input.l
           /\ (input.k = "list" /\ (Len(input.l) # 2 \/ \E j \in 1..Len(input.l) : input.l[j].k # "int"))
                 => ~result.ok

\* C6: a header's crc_location is kept as given when it is a string or an
\* integer, and a boolean, mapping, sequence or null is rejected
C6_CrcLocationShapes ==
    (target = "Header" /\ pc # "start" /\ Has(input, "crc_location"))
        => LET loc == Get(input, "crc_location")
           IN  /\ loc.k \in {"bool", "dict", "list", "NoneType"} => ~result.ok
               /\ (loc.k \in {"str", "int"} /\ result.ok)
                     => Get(result.val, "crc_location") = loc
               /\ (loc.k \in {"str", "int"} /\ Has(input, "start_address")
                     /\ ValidateInt(Get(input, "start_address")).ok
                     /\ (Has(input, "padding") => ValidateInt(Get(input, "padding")).ok))
                     => result.ok

\* C7: the printed dump of a validated Config validates again, to an equal
\* Config
C7_RoundTrip ==
    pc = "revalidated" => result2.ok /\ result2.val = result.val

\* C8: a top-level mapping without `settings` fails to load with the single
\* missing-settings error behind the file-path prefix, and no Config
C8_MissingSettings ==
    (target = "Config" /\ pc # "start" /\ Supported /\ IsMapping(input)
        /\ ~Has(input, "settings"))
        => /\ pc = "invalid"
           /\ ~result.ok
           /\ result.val = NoneV
           /\ stdout = NoneV
           /\ result.errs = <<"failed to parse file ", path[1], path[2], ": ",
                              "Value error, Missing required 'settings' at top-level">>

C8_Witness ==
    /\ target = "Config" /\ pc = "invalid" /\ Supported
    /\ input.ks = <<"fw", "blocks">>
    /\ ValidateBlock(input.l[1]).ok

IsScalarValue(v) == v.k \in {"int", "float", "str"}

\* C9: a literal value is accepted exactly when it is an int, float or str,
\* or a non-empty list of them, and an accepted list keeps its elements
C9_ValueShapes ==
    (target = "ValueSource" /\ pc # "start")
        => /\ result.ok <=>
                \/ IsScalarValue(input)
                \/ /\ input.k = "list" /\ Len(input.l) >= 1
                   /\ \A j \in 1..Len(input.l) : IsScalarValue(input.l[j])
           /\ (result.ok /\ input.k = "list") => result.val.l[1].l[1] = input

\* C10: is_single tells a scalar from a sequence; single returns the scalar
\* and fails for every sequence; array returns the stored elements of a
\* sequence and the one-element list of a scalar
C10_Accessors ==
    (target = "ValueSource" /\ pc = "valid")
        => /\ acc.is_single # Unset => acc.is_single = Ok(BoolV(input.k # "list"))
           /\ acc.single # Unset =>
                 IF input.k = "list" THEN ~acc.single.ok
                 ELSE acc.single = Ok(ValidateDataValue(input).val)
           /\ acc.array # Unset =>
                 /\ acc.array.ok
                 /\ acc.array.val.k = "list"
                 /\ IF input.k = "list"
                    THEN acc.array.val.l = [j \in 1..Len(input.l) |-> ValidateDataValue(input.l[j]).val]
                    ELSE acc.array.val.l = <<ValidateDataValue(input).val>>
           /\ (acc.is_single = Ok(BoolV(TRUE)) /\ acc.array # Unset)
                 => Len(acc.array.val.l) = 1

C10_Witness ==
    /\ target = "ValueSource" /\ pc = "valid"
    /\ input.k = "list" /\ Len(input.l) = 1
    /\ acc.is_single = Ok(BoolV(FALSE))
    /\ ~acc.single.ok /\ acc.single # Unset
    /\ acc.array.ok /\ Len(acc.array.val.l) = 1

====
